---- MODULE Spec2Model ----
(***************************************************************************)
(* A model of scmrepo/git/lfs/fetch.py: the LFS fetch orchestrator (fetch), *)
(* the fetch-URL resolver (get_fetch_url), the object collector            *)
(* (_collect_objects) and the path filter (_filter_paths).                 *)
(*                                                                         *)
(* Paths and glob patterns are sequences of one-character strings, so that *)
(* fnmatch and the root-prefix regular expression are computed character   *)
(* by character.  Remote names and URLs are atomic strings.  The Python    *)
(* value None of an Optional[list] argument is the empty sequence: the     *)
(* code only ever tests these arguments for truthiness, which None and []  *)
(* share.  None of the Optional[str] argument `remote` is the string None. *)
(***************************************************************************)
EXTENDS Naturals, Sequences, FiniteSets, TLC

VARIABLES
    pc,          \* position of the running function
    paths,       \* _filter_paths: the `paths` argument
    include,     \* the `include` argument (fetch, _collect_objects, _filter_paths)
    exclude,     \* the `exclude` argument
    filtered,    \* _filter_paths: the set it yields from
    fs,          \* _collect_objects: scm.get_fs(rev), a function file path -> file
    root,        \* _collect_objects: the traversal root given to fs.find
    inc,         \* _collect_objects: `include` after the narrowing at lines 119-128
    todo,        \* _collect_objects: candidates of the for loop not yet visited
    examined,    \* history: candidates the loop body has run for
    opened,      \* history: paths given to fs.open
    produced,    \* history: the Pointers yielded by the running collection
    revs,        \* fetch: the `revs` argument, then the list iterated
    remote,      \* fetch / get_fetch_url: the `remote` argument
    localStore,  \* the Pointers (oid, size) scm.lfs_storage.exists answers True for
    revIdx,      \* fetch: index in revs of the revision being collected
    objects,     \* fetch: the accumulated set `objects`
    error,       \* the exception that ended the function, or NoError
    yielded,     \* history: [rev, id] for every Pointer identity the collector yielded
    absentSeen,  \* history: identities exists() answered False for
    presentSeen, \* history: identities exists() answered True for
    started,     \* history: the revisions whose collection began, in order
    finished,    \* history: number of collections that ran to completion
    url,         \* fetch: the local `url`
    urlCalls,    \* history: number of get_fetch_url calls
    transfers,   \* history: the (url, objects) arguments of lfs_storage.fetch calls
    config,      \* the configuration layers get_fetch_url reads
    urlResult    \* the outcome of the last get_fetch_url call

filterVars == <<paths, filtered>>
argVars == <<include, exclude>>
collectVars == <<fs, root, inc, todo, examined, opened, produced>>
fetchVars == <<revs, localStore, revIdx, objects, yielded, absentSeen,
               presentSeen, started, finished, url, urlCalls, transfers>>
urlVars == <<remote, config, urlResult>>
vars == <<pc, error, filterVars, argVars, collectVars, fetchVars, urlVars>>

None == "None"
NoError == "NoError"

(***************************************************************************)
(* Bounds of the model.                                                    *)
(***************************************************************************)
MaxInclude == 2     \* longest include list given to _filter_paths
MaxExclude == 2     \* longest exclude list given to _filter_paths
MaxPatLen == 4      \* longest single include pattern given to _collect_objects
MaxRevs == 2        \* longest revs list given to fetch

(***************************************************************************)
(* The state of the parts of the program that are not running.             *)
(***************************************************************************)
NoResult == [status |-> "unset", url |-> "", reads |-> <<>>]
NoConfig ==
    [lfsUrl |-> FALSE, overlay |-> FALSE, overlayLfsUrl |-> FALSE,
     branch |-> "SCMError", lfsdefault |-> FALSE, gitLfsurl |-> {},
     overlayLfsurl |-> {}, remotes |-> {}]

IdleFilter == paths = {} /\ filtered = {}
IdleCollect ==
    /\ root = <<>> /\ inc = <<>> /\ todo = {}
    /\ examined = {} /\ opened = {} /\ produced = {}
IdleFetch ==
    /\ revs = <<>> /\ localStore = {} /\ revIdx = 0
    /\ objects = {} /\ yielded = {} /\ absentSeen = {} /\ presentSeen = {}
    /\ started = <<>> /\ finished = 0 /\ url = "" /\ urlCalls = 0
    /\ transfers = <<>>
IdleUrl == remote = None /\ config = NoConfig /\ urlResult = NoResult

(***************************************************************************)
(* Strings.                                                                *)
(***************************************************************************)
RECURSIVE SeqsUpTo(_, _)
SeqsUpTo(S, n) ==
    IF n = 0 THEN {<<>>}
    ELSE LET shorter == SeqsUpTo(S, n - 1)
         IN  shorter \cup {Append(s, c) : s \in shorter, c \in S}

IsPrefix(p, s) == Len(p) <= Len(s) /\ SubSeq(s, 1, Len(p)) = p

\* str.rstrip("/")
RECURSIVE RStripSlash(_)
RStripSlash(s) ==
    IF s # <<>> /\ s[Len(s)] = "/" THEN RStripSlash(SubSeq(s, 1, Len(s) - 1)) ELSE s

\* str.lstrip("/")
RECURSIVE LStripSlash(_)
LStripSlash(s) ==
    IF s # <<>> /\ s[1] = "/" THEN LStripSlash(Tail(s)) ELSE s

(***************************************************************************)
(* fnmatch.filter(paths, pattern), as fnmatch.translate builds the regular *)
(* expression: "*" is ".*", "?" is ".", "[" opens a character class when a *)
(* closing "]" follows (a leading "!" negates it, a "]" first in the class *)
(* is a member) and is a literal "[" otherwise; the whole name must match. *)
(***************************************************************************)
RECURSIVE ScanClass(_, _)
ScanClass(pat, j) ==
    IF j <= Len(pat) /\ pat[j] # "]" THEN ScanClass(pat, j + 1) ELSE j

\* The index of the "]" closing the class opened by pat[i] = "[", or 0.
ClassEnd(pat, i) ==
    LET j1 == IF i + 1 <= Len(pat) /\ pat[i + 1] = "!" THEN i + 2 ELSE i + 1
        j2 == IF j1 <= Len(pat) /\ pat[j1] = "]" THEN j1 + 1 ELSE j1
        j == ScanClass(pat, j2)
    IN  IF j > Len(pat) THEN 0 ELSE j

ClassMatches(stuff, c) ==
    LET neg == stuff[1] = "!"
        members == {stuff[k] : k \in (IF neg THEN 2 ELSE 1)..Len(stuff)}
    IN  (c \in members) # neg

RECURSIVE MatchAt(_, _, _, _)
MatchAt(pat, i, name, j) ==
    IF i > Len(pat) THEN j > Len(name)
    ELSE IF pat[i] = "*"
         THEN MatchAt(pat, i + 1, name, j)
              \/ (j <= Len(name) /\ MatchAt(pat, i, name, j + 1))
    ELSE IF j > Len(name) THEN FALSE
    ELSE IF pat[i] = "?" THEN MatchAt(pat, i + 1, name, j + 1)
    ELSE IF pat[i] = "[" /\ ClassEnd(pat, i) # 0
         THEN ClassMatches(SubSeq(pat, i + 1, ClassEnd(pat, i) - 1), name[j])
              /\ MatchAt(pat, ClassEnd(pat, i) + 1, name, j + 1)
    ELSE pat[i] = name[j] /\ MatchAt(pat, i + 1, name, j + 1)

Fnmatch(name, pat) == MatchAt(pat, 1, name, 1)

FnmatchFilter(names, pat) == {n \in names : Fnmatch(n, pat)}

(***************************************************************************)
(* _filter_paths (lines 143-155).                                          *)
(***************************************************************************)
RECURSIVE IncludeLoop(_, _, _, _)
IncludeLoop(ps, incl, i, acc) ==
    IF i > Len(incl) THEN acc
    ELSE IncludeLoop(ps, incl, i + 1, acc \cup FnmatchFilter(ps, incl[i]))

RECURSIVE ExcludeLoopIntersection(_, _, _, _)
ExcludeLoopIntersection(ps, excl, i, acc) ==
    IF i > Len(excl) THEN acc
    ELSE ExcludeLoopIntersection(ps, excl, i + 1, acc \cap FnmatchFilter(ps, excl[i]))

RECURSIVE ExcludeLoop(_, _, _, _)
ExcludeLoop(ps, excl, i, acc) ==
    IF i > Len(excl) THEN acc
    ELSE ExcludeLoop(ps, excl, i + 1, acc \ FnmatchFilter(ps, excl[i]))

FilterPaths(ps, incl, excl) ==
    LET start == IF incl # <<>> THEN IncludeLoop(ps, incl, 1, {}) ELSE ps
    IN  IF excl # <<>> THEN ExcludeLoop(ps, excl, 1, start) ELSE start

(***************************************************************************)
(* Specification of _filter_paths alone: any path set, any pattern lists.  *)
(***************************************************************************)
FilterPathUniverse ==
    { <<"a">>, <<"b">>, <<"a", "/", "b">>, <<"b", "/", "a">> }

FilterPatterns ==
    { <<"a">>, <<"a", "/", "*">>, <<"[", "!", "a", "]", "*">>, <<"?">> }

InitFilter ==
    /\ pc = "filter"
    /\ paths \in SUBSET FilterPathUniverse
    /\ include \in SeqsUpTo(FilterPatterns, MaxInclude)
    /\ exclude \in SeqsUpTo(FilterPatterns, MaxExclude)
    /\ filtered = {}
    /\ error = NoError
    /\ fs = <<>> /\ IdleCollect /\ IdleFetch /\ IdleUrl

CallFilterPaths ==
    /\ pc = "filter"
    /\ filtered' = FilterPaths(paths, include, exclude)
    /\ pc' = "filtered"
    /\ UNCHANGED <<paths, error, argVars, collectVars, fetchVars, urlVars>>

NextFilter == CallFilterPaths

SpecFilter == InitFilter /\ [][NextFilter]_vars

\* C6: _filter_paths yields exactly the paths matching at least one include
\* pattern (all paths when the include list is empty), minus the paths
\* matching at least one exclude pattern; so the result is a subset of the
\* input, equals the input when both lists are empty, and never holds a path
\* matching an exclude pattern.
FilterYieldsIncludedMinusExcluded ==
    pc = "filtered" =>
        /\ filtered =
              { p \in paths :
                  /\ include = <<>> \/ \E i \in 1..Len(include) : Fnmatch(p, include[i])
                  /\ ~ \E j \in 1..Len(exclude) : Fnmatch(p, exclude[j]) }
        /\ filtered \subseteq paths
        /\ (include = <<>> /\ exclude = <<>>) => filtered = paths

\* A path matching both an include and an exclude pattern was filtered.
FilterWitness ==
    /\ pc = "filtered"
    /\ Len(include) = 2 /\ Len(exclude) = 2
    /\ \E p \in paths :
          /\ \E i \in 1..Len(include) : Fnmatch(p, include[i])
          /\ \E j \in 1..Len(exclude) : Fnmatch(p, exclude[j])
    /\ filtered # {} /\ filtered # paths

(***************************************************************************)
(* get_fetch_url (lines 49-99).  The configuration layers:                 *)
(*   lfsUrl        lfs.url is set in the primary git config                *)
(*   overlay       the file .lfsconfig exists                              *)
(*   overlayLfsUrl lfs.url is set in .lfsconfig                            *)
(*   branch        what scm.active_branch_remote() does: raises SCMError,  *)
(*                 or returns a remote name                                *)
(*   lfsdefault    remote.lfsdefault is set in the primary git config      *)
(*   gitLfsurl     the names n with remote.n.lfsurl set in the git config  *)
(*   overlayLfsurl the names n with remote.n.lfsurl set in .lfsconfig      *)
(*   remotes       the names scm.get_remote_url resolves                   *)
(* Every layer holds a value of its own, so the layer a URL came from can  *)
(* be told.  A result carries the reads made, in order.                    *)
(***************************************************************************)
ArgRemote == "up"            \* the name a caller supplies
BranchRemote == "trk"        \* the name the active branch tracks
DefaultRemote == "dflt"      \* the value of remote.lfsdefault
Origin == "origin"           \* line 84
Names == {ArgRemote, BranchRemote, DefaultRemote, Origin}

GitLfsUrl == "https://git-config/lfs.url"
OverlayLfsUrl == "https://lfsconfig/lfs.url"
GitRemoteLfsurl(n) == "https://git-config/lfsurl/" \o n
OverlayRemoteLfsurl(n) == "https://lfsconfig/lfsurl/" \o n
RemoteUrl(n) == "https://remote-url/" \o n

\* Python truthiness of an Optional[str].
Truthy(s) == s # None /\ s # ""

ReadGitLfsUrl == <<"git-config", "lfs.url">>
ReadOverlayFile == <<"open", ".lfsconfig">>
ReadOverlayLfsUrl == <<"lfsconfig", "lfs.url">>
ReadBranch == <<"scm", "active_branch_remote">>
ReadLfsDefault == <<"git-config", "remote.lfsdefault">>
ReadGitLfsurl(n) == <<"git-config", "remote." \o n \o ".lfsurl">>
ReadOverlayLfsurl(n) == <<"lfsconfig", "remote." \o n \o ".lfsurl">>
ReadRemoteUrl(n) == <<"scm", "get_remote_url " \o n>>

Returned(u, rd) == [status |-> "ok", url |-> u, reads |-> rd]
Raised(exc, rd) == [status |-> exc, url |-> "", reads |-> rd]

\* Lines 75-79: the remote after the active branch was asked.
AfterBranch(cfg, rem, rd) ==
    IF ~ Truthy(rem)
    THEN [name |-> IF cfg.branch = "SCMError" THEN rem ELSE cfg.branch,
          reads |-> Append(rd, ReadBranch)]
    ELSE [name |-> rem, reads |-> rd]

\* Lines 80-84 with the fallback taken before the configured default.
AfterLfsDefaultOriginOnly(cfg, rem, rd) ==
    IF ~ Truthy(rem)
    THEN [name |-> Origin, reads |-> Append(rd, ReadLfsDefault)]
    ELSE [name |-> rem, reads |-> rd]

\* Lines 80-84: remote.lfsdefault of the git config, else "origin".
AfterLfsDefault(cfg, rem, rd) ==
    IF ~ Truthy(rem)
    THEN [name |-> IF cfg.lfsdefault THEN DefaultRemote ELSE Origin,
          reads |-> Append(rd, ReadLfsDefault)]
    ELSE [name |-> rem, reads |-> rd]

\* Lines 86-99: the layers of the remote `n`.
RemoteLayers(cfg, n, rd) ==
    LET rd1 == Append(rd, ReadGitLfsurl(n))
        rd2 == IF cfg.overlay THEN Append(rd1, ReadOverlayLfsurl(n)) ELSE rd1
        rd3 == Append(rd2, ReadRemoteUrl(n))
    IN  IF n \in cfg.gitLfsurl THEN Returned(GitRemoteLfsurl(n), rd1)
        ELSE IF cfg.overlay /\ n \in cfg.overlayLfsurl
             THEN Returned(OverlayRemoteLfsurl(n), rd2)
        ELSE IF n \in cfg.remotes THEN Returned(RemoteUrl(n), rd3)
        ELSE Raised("InvalidRemote", rd3)

GetFetchUrl(cfg, rem) ==
    LET rd1 == <<ReadGitLfsUrl>>
        rd2 == Append(rd1, ReadOverlayFile)
        \* lfs_config is None when the file does not exist (lines 58-63)
        rd3 == IF cfg.overlay THEN Append(rd2, ReadOverlayLfsUrl) ELSE rd2
    IN  IF cfg.lfsUrl THEN Returned(GitLfsUrl, rd1)
        ELSE IF cfg.overlay /\ cfg.overlayLfsUrl THEN Returned(OverlayLfsUrl, rd3)
        ELSE LET b == AfterBranch(cfg, rem, rd3)
                 d == AfterLfsDefault(cfg, b.name, b.reads)
             IN  RemoteLayers(cfg, d.name, d.reads)

\* A .lfsconfig that does not exist sets nothing.
Configs ==
    { c \in [lfsUrl : BOOLEAN, overlay : BOOLEAN, overlayLfsUrl : BOOLEAN,
             branch : {"SCMError", BranchRemote}, lfsdefault : BOOLEAN,
             gitLfsurl : SUBSET Names, overlayLfsurl : SUBSET Names,
             remotes : SUBSET Names] :
        ~ c.overlay => (~ c.overlayLfsUrl /\ c.overlayLfsurl = {}) }

RemoteArgs == {None, "", ArgRemote}

InitUrl ==
    /\ pc = "url"
    /\ remote \in RemoteArgs
    /\ config \in Configs
    /\ urlResult = NoResult
    /\ error = NoError
    /\ include = <<>> /\ exclude = <<>> /\ fs = <<>>
    /\ IdleFilter /\ IdleCollect /\ IdleFetch

CallGetFetchUrl ==
    /\ pc = "url"
    /\ urlResult' = GetFetchUrl(config, remote)
    /\ error' = IF urlResult'.status = "ok" THEN NoError ELSE urlResult'.status
    /\ pc' = "resolved"
    /\ UNCHANGED <<remote, config, filterVars, argVars, collectVars, fetchVars>>

NextUrl == CallGetFetchUrl

SpecUrl == InitUrl /\ [][NextUrl]_vars

\* The remote name the layers 3 to 5 are read for.
ChainName(cfg, rem) ==
    IF Truthy(rem) THEN rem
    ELSE IF cfg.branch # "SCMError" THEN cfg.branch
    ELSE IF cfg.lfsdefault THEN DefaultRemote
    ELSE Origin

\* The ordered chain: for each layer whether it holds a value, the value, and
\* the read that consults it.
Chain(cfg, rem) ==
    LET n == ChainName(cfg, rem)
    IN  << [present |-> cfg.lfsUrl, value |-> GitLfsUrl, read |-> ReadGitLfsUrl],
           [present |-> cfg.overlay /\ cfg.overlayLfsUrl, value |-> OverlayLfsUrl,
            read |-> ReadOverlayLfsUrl],
           [present |-> n \in cfg.gitLfsurl, value |-> GitRemoteLfsurl(n),
            read |-> ReadGitLfsurl(n)],
           [present |-> cfg.overlay /\ n \in cfg.overlayLfsurl,
            value |-> OverlayRemoteLfsurl(n), read |-> ReadOverlayLfsurl(n)],
           [present |-> n \in cfg.remotes, value |-> RemoteUrl(n),
            read |-> ReadRemoteUrl(n)] >>

ReadSet(rd) == {rd[k] : k \in 1..Len(rd)}

\* C1: get_fetch_url returns the value of the first layer of the chain that
\* holds one, having read that layer last and no layer after it; the overlay
\* is read only when .lfsconfig exists; the remote name is the caller's, else
\* the active branch's, else remote.lfsdefault of the git config, else
\* "origin"; InvalidRemote is raised exactly when no layer holds a value.
UrlIsFirstPresentLayer ==
    pc = "resolved" =>
        LET ch == Chain(config, remote)
            hits == {k \in 1..5 : ch[k].present}
            rd == urlResult.reads
        IN  /\ hits = {} <=> urlResult.status = "InvalidRemote"
            /\ hits = {} => ReadSet(rd) \cap {ch[k].read : k \in 1..5}
                              = {ch[k].read : k \in IF config.overlay THEN 1..5
                                                                      ELSE {1, 3, 5}}
            /\ hits # {} =>
                 LET first == CHOOSE k \in hits : \A j \in hits : k <= j
                 IN  /\ urlResult.status = "ok"
                     /\ urlResult.url = ch[first].value
                     /\ rd[Len(rd)] = ch[first].read
                     /\ \A k \in 1..5 : k > first => ch[k].read \notin ReadSet(rd)
            /\ ~ config.overlay =>
                 ReadSet(rd) \cap ({ReadOverlayLfsUrl}
                                   \cup {ReadOverlayLfsurl(n) : n \in Names}) = {}
            \* nothing is read for a remote name other than the chain's
            /\ \A n \in Names \ {ChainName(config, remote)} :
                 ReadSet(rd) \cap {ReadGitLfsurl(n), ReadOverlayLfsurl(n),
                                   ReadRemoteUrl(n)} = {}
            /\ Truthy(remote) => ReadSet(rd) \cap {ReadBranch, ReadLfsDefault} = {}

\* Every layer holds a conflicting value, the caller gave no remote, the
\* active branch tracks none, and the call returned.
UrlWitness ==
    /\ pc = "resolved"
    /\ ~ config.lfsUrl /\ config.overlay /\ ~ config.overlayLfsUrl
    /\ remote = None /\ config.branch = "SCMError" /\ config.lfsdefault
    /\ config.gitLfsurl = Names \ {DefaultRemote}
    /\ config.overlayLfsurl = Names /\ config.remotes = Names
    /\ urlResult.url = OverlayRemoteLfsurl(DefaultRemote)

(***************************************************************************)
(* _collect_objects (lines 105-140).                                       *)
(***************************************************************************)
IsWildcard(c) == c \in {"*", "?", "["}

\* The length of the longest run [^*?\[]* at the start of s.
RECURSIVE StaticRun(_, _)
StaticRun(s, n) ==
    IF n < Len(s) /\ ~ IsWildcard(s[n + 1]) THEN StaticRun(s, n + 1) ELSE n

\* Backtracking of the greedy run until "/" follows it: the match's length, or
\* 0 when the run cannot be cut before a "/".
RECURSIVE BackOff(_, _)
BackOff(s, k) ==
    IF k = 0 THEN 0
    ELSE IF s[k] = "/" THEN k
    ELSE BackOff(s, k - 1)

NoMatch == [matched |-> FALSE, prefix |-> <<>>]
Matched(s) == [matched |-> TRUE, prefix |-> s]

\* The regular expression without its "$" alternative.
RootPrefixSlashOnly(s) ==
    LET k == BackOff(s, StaticRun(s, 0))
    IN  IF k = 0 THEN NoMatch ELSE Matched(SubSeq(s, 1, k))

\* _ROOT_PATH_PREFIX_REGEX.match(s) (line 102): ^(?P<prefix>[^*?\[]*(?:/|$))
RootPrefix(s) ==
    LET n == StaticRun(s, 0)
        k == BackOff(s, n)
    IN  IF n = Len(s) THEN Matched(s)
        ELSE IF k = 0 THEN NoMatch
        ELSE Matched(SubSeq(s, 1, k))

TreeRoot == <<"/">>
EverythingBelow(r) == RStripSlash(r) \o <<"/", "*", "*">>

\* Lines 119-128: the traversal root and the include list given to the filter.
Narrow(incl) ==
    IF incl # <<>> /\ Len(incl) = 1 /\ RootPrefix(incl[1]).matched
    THEN LET r == RootPrefix(incl[1]).prefix
         IN  [root |-> r,
              include |-> IF incl[1] \in {r, EverythingBelow(r)} THEN <<>> ELSE incl]
    ELSE [root |-> TreeRoot, include |-> incl]

\* fs.find(root): the files of the tree below root, or root itself when it is
\* a file; the tree root, however written, holds every file.
Find(tree, r) ==
    LET dir == LStripSlash(RStripSlash(r))
    IN  IF dir = <<>> THEN DOMAIN tree
        ELSE {p \in DOMAIN tree : p = dir \/ IsPrefix(dir \o <<"/">>, p)}

\* A file of a tree: what check_attr(path, "filter") does for it (a value, None
\* or raising SCMError) and what its raw content is: "OpenOSError" (fs.open
\* raises), "PeekOSError" (the read raises), "plain" (no pointer header),
\* "malformed" (a header, Pointer.load raises ValueError) or "pointer".
PointerIds ==
    { [oid |-> "abc", size |-> 10], [oid |-> "abc", size |-> 20],
      [oid |-> "def", size |-> 10] }
NoId == [oid |-> "", size |-> 0]
LfsFiles ==
    { [attr |-> "lfs", kind |-> k, id |-> NoId] :
        k \in {"OpenOSError", "PeekOSError", "plain", "malformed"} }
    \cup { [attr |-> "lfs", kind |-> "pointer", id |-> i] : i \in PointerIds }
PointerFiles(attrs) ==
    { [attr |-> a, kind |-> "pointer", id |-> [oid |-> "abc", size |-> 10]] :
        a \in attrs }

\* Line 132 with any set filter taken for the marker.
IsLfsAnyFilter(attr) == attr # None

\* Line 132: the attribute is the marker.
IsLfs(attr) == attr = "lfs"

Outcome(exc, op, ids) == [raises |-> exc, opens |-> op, ids |-> ids]

\* Lines 133-140 with only OSError caught.
ReadPointerOSErrorOnly(f) ==
    CASE f.kind = "OpenOSError" -> Outcome(NoError, TRUE, {})
      [] f.kind = "PeekOSError" -> Outcome(NoError, TRUE, {})
      [] f.kind = "plain" -> Outcome(NoError, TRUE, {})
      [] f.kind = "malformed" -> Outcome("ValueError", TRUE, {})
      [] f.kind = "pointer" -> Outcome(NoError, TRUE, {f.id})

\* Lines 133-140: open, peek, compare the headers, load; ValueError and
\* OSError are swallowed.
ReadPointer(f) ==
    CASE f.kind = "OpenOSError" -> Outcome(NoError, TRUE, {})
      [] f.kind = "PeekOSError" -> Outcome(NoError, TRUE, {})
      [] f.kind = "plain" -> Outcome(NoError, TRUE, {})
      [] f.kind = "malformed" -> Outcome(NoError, TRUE, {})
      [] f.kind = "pointer" -> Outcome(NoError, TRUE, {f.id})

\* Lines 131-140, the body of the loop for the file at `path`.
Candidate(tree, path) ==
    LET f == tree[LStripSlash(path)]
    IN  IF f.attr = "SCMError" THEN Outcome("SCMError", FALSE, {})
        ELSE IF IsLfs(f.attr) THEN ReadPointer(f)
        ELSE Outcome(NoError, FALSE, {})

\* A Pointer object: its identity and the file it was loaded from.
Pointer(id, src) == [oid |-> id.oid, size |-> id.size, src |-> src]
Id(p) == [oid |-> p.oid, size |-> p.size]

CollectBegin ==
    /\ pc = "collect"
    /\ root' = Narrow(include).root
    /\ inc' = Narrow(include).include
    /\ todo' = FilterPaths(Find(fs, root'), inc', exclude)
    /\ pc' = "collecting"
    /\ UNCHANGED <<fs, examined, opened, produced, error, filterVars, argVars,
                   fetchVars, urlVars>>

CollectCandidate ==
    /\ pc = "collecting"
    /\ \E path \in todo :
         LET o == Candidate(fs, path)
         IN  /\ todo' = todo \ {path}
             /\ examined' = examined \cup {path}
             /\ opened' = IF o.opens THEN opened \cup {path} ELSE opened
             /\ produced' = produced \cup {Pointer(i, path) : i \in o.ids}
             /\ error' = o.raises
             /\ pc' = IF o.raises = NoError THEN "collecting" ELSE "raised"
    /\ UNCHANGED <<fs, root, inc, filterVars, argVars, fetchVars, urlVars>>

CollectEnd ==
    /\ pc = "collecting"
    /\ todo = {}
    /\ pc' = "collected"
    /\ UNCHANGED <<error, filterVars, argVars, collectVars, fetchVars, urlVars>>

(***************************************************************************)
(* Trees.  A file and a directory cannot share a path.                     *)
(***************************************************************************)
Consistent(F) == \A p, q \in F : ~ IsPrefix(p \o <<"/">>, q)
TreesOver(U, kinds) ==
    UNION { [F -> kinds] : F \in {G \in SUBSET U : Consistent(G)} }

(***************************************************************************)
(* Specification of the narrowing of the traversal root: every single      *)
(* non-empty include pattern up to MaxPatLen characters, over every tree.  *)
(***************************************************************************)
PatChars == {"a", "/", "*", "?", "["}
RootFiles ==
    { <<"a">>, <<"a", "a">>, <<"a", "/", "a">>, <<"a", "/", "a", "a">>,
      <<"a", "a", "/", "a">> }
RootIncludes ==
    {<<>>} \cup { <<p>> : p \in SeqsUpTo(PatChars, MaxPatLen) \ {<<>>} }
    \cup { <<p, q>> : p, q \in {<<"a">>, <<"a", "/", "*">>, <<"a", "/", "*", "*">>} }
RootExcludes == { <<>>, << <<"*", "a", "a">> >> }

InitRoot ==
    /\ pc = "collect"
    /\ fs \in TreesOver(RootFiles, PointerFiles({"lfs"}))
    /\ include \in RootIncludes
    /\ exclude \in RootExcludes
    /\ error = NoError
    /\ IdleFilter /\ IdleCollect /\ IdleFetch /\ IdleUrl

NextRoot == CollectBegin

SpecRoot == InitRoot /\ [][NextRoot]_vars

WildcardFree(s) == \A k \in 1..Len(s) : ~ IsWildcard(s[k])
HasSeparator(s) == \E k \in 1..Len(s) : s[k] = "/"

\* The lengths of the prefixes of s that are free of wildcards and end with a
\* "/" or with s itself.
StaticPrefixes(s) ==
    { k \in 0..Len(s) :
        /\ WildcardFree(SubSeq(s, 1, k))
        /\ k = Len(s) \/ (k > 0 /\ s[k] = "/") }
Longest(K) == CHOOSE k \in K : \A j \in K : j <= k

\* C9, as amended: with exactly one include pattern the traversal root is the
\* pattern's longest wildcard-free prefix that ends with "/" or is the whole
\* pattern; when the pattern has no such prefix (a wildcard in its first
\* component) the root is the tree root and the pattern is given to the path
\* filter; with no or several include patterns the root is the tree root and
\* every pattern is given to the path filter.
RootIsLongestStaticPrefix ==
    pc = "collecting" =>
        IF Len(include) = 1
        THEN LET K == StaticPrefixes(include[1])
             IN  IF K # {}
                 THEN root = SubSeq(include[1], 1, Longest(K))
                 ELSE root = TreeRoot /\ inc = include
        ELSE root = TreeRoot /\ inc = include

\* C9 as claimed: with exactly one include pattern the root is the pattern
\* itself when it has no separator, else its longest wildcard-free prefix
\* ending at a separator boundary (where it has one).
RootIsPrefixOrPatternItself ==
    (pc = "collecting" /\ Len(include) = 1) =>
        IF ~ HasSeparator(include[1]) THEN root = include[1]
        ELSE StaticPrefixes(include[1]) # {} =>
                root = SubSeq(include[1], 1, Longest(StaticPrefixes(include[1])))

\* One pattern with a wildcard after a directory narrowed the root to the
\* directory and was kept for the filter.
RootWitness ==
    /\ pc = "collecting"
    /\ include = << <<"a", "/", "*", "a">> >>
    /\ root = <<"a", "/">> /\ inc = include
    /\ todo = { <<"a", "/", "a">>, <<"a", "/", "a", "a">> }

\* C10: narrowing is a pure optimization: include filtering is dropped only
\* for a single pattern equal to the root or to root/**, and the candidates
\* are those the path filter yields with the original include list over the
\* whole tree.
NarrowingIsPureOptimization ==
    pc = "collecting" =>
        /\ (include # <<>> /\ inc = <<>>) =>
              /\ Len(include) = 1
              /\ include[1] \in {root, EverythingBelow(root)}
        /\ todo = FilterPaths(Find(fs, TreeRoot), include, exclude)

(***************************************************************************)
(* Specification of one collection: every tree of up to three files of     *)
(* every kind, collected to its end.                                       *)
(***************************************************************************)
CollectFiles == { <<"a", "/", "a">>, <<"a", "/", "b">>, <<"b">> }
CollectKinds == LfsFiles \cup PointerFiles({"text", None, "SCMError"})
CollectIncludes ==
    { <<>>, << <<"a", "/", "*", "*">> >>, << <<"a", "/", "*">>, <<"b">> >> }
CollectExcludes == { <<>>, << <<"*", "/", "b">> >> }

InitCollect ==
    /\ pc = "collect"
    /\ fs \in TreesOver(CollectFiles, CollectKinds)
    /\ include \in CollectIncludes
    /\ exclude \in CollectExcludes
    /\ error = NoError
    /\ IdleFilter /\ IdleCollect /\ IdleFetch /\ IdleUrl

NextCollect == CollectBegin \/ CollectCandidate \/ CollectEnd

SpecCollect == InitCollect /\ [][NextCollect]_vars

\* The candidates of the collection and the Pointers of the valid ones.
Candidates == FilterPaths(Find(fs, root), inc, exclude)
IsValidPointer(f) == f.attr = "lfs" /\ f.kind = "pointer"
ValidPointers(C) == { Pointer(fs[p].id, p) : p \in {q \in C : IsValidPointer(fs[q])} }

\* C5, as amended: a failure of a candidate's raw open, prefix read or
\* Pointer parse (OSError, ValueError) skips that candidate only: the
\* traversal goes on, every candidate is examined and the Pointers of all
\* valid candidates are yielded.  A failure of a candidate's attribute query
\* is not caught: it ends the traversal with that error.
ReadFailureSkipsCandidateOnly ==
    /\ pc = "collected" =>
          /\ examined = Candidates
          /\ produced = ValidPointers(Candidates)
    /\ pc = "raised" =>
          /\ error = "SCMError"
          /\ \E p \in examined : fs[p].attr = "SCMError"
    /\ (pc = "collecting" /\ todo # {}) => ENABLED CollectCandidate
    /\ (pc = "collecting" /\ todo = {}) => examined = Candidates

\* C5 as claimed: no failure of a candidate, its attribute query included,
\* ends the traversal, and every valid candidate's Pointer is yielded.
AnyFailureSkipsCandidateOnly ==
    /\ pc # "raised"
    /\ pc \in {"collected", "raised"} =>
          /\ examined = Candidates
          /\ produced = ValidPointers(Candidates)

\* Three candidates were examined to the end: two failed to read in different
\* ways and the third one's Pointer was yielded.
CollectWitness ==
    /\ pc = "collected"
    /\ Cardinality(examined) = 3
    /\ \E p, q \in examined :
          fs[p].kind = "OpenOSError" /\ fs[q].kind = "malformed"
    /\ Cardinality(produced) = 1

\* C7: no Pointer is yielded for, and no content opened of, a path whose
\* filter attribute is not "lfs".
OnlyLfsPathsAreOpenedOrYielded ==
    /\ \A ptr \in produced : fs[ptr.src].attr = "lfs"
    /\ \A p \in opened : fs[p].attr = "lfs"

\* Files holding a valid pointer under another filter or none were examined.
NonLfsWitness ==
    /\ pc = "collected"
    /\ \E p, q \in examined :
          /\ fs[p].attr = "text" /\ fs[p].kind = "pointer"
          /\ fs[q].attr = None /\ fs[q].kind = "pointer"
          /\ {p, q} \cap opened = {}
    /\ produced # {}

(***************************************************************************)
(* fetch (lines 18-46).                                                    *)
(***************************************************************************)
\* scm.lfs_storage.exists(pointer)
Exists(ptr) == Id(ptr) \in localStore

\* Line 34 with the existence check dropped.
KeepAll(ptr) == TRUE

\* Line 34: the condition of the generator expression.
Keep(ptr) == ~ Exists(ptr)

\* Pointer.__eq__ and __hash__: by oid and size.
PointerEq(p, q) == p.oid = q.oid /\ p.size = q.size

\* set.update with one element: an element equal to one of the set is not
\* added (lines 29-31).
SetAdd(S, p) == IF \E q \in S : PointerEq(q, p) THEN S ELSE S \cup {p}

\* Line 36 asking whether the collector yielded nothing.
NothingToFetchIfNothingYielded == yielded = {}

\* Line 36: not objects
NothingToFetch == objects = {}

\* The loop of line 30 left after one revision.
LoopDoneAfterOne == revIdx > 1

\* The loop of line 30 has run for every revision.
LoopDone == revIdx > Len(revs)

\* Line 41 testing `remote is not None`.
UseOverrideUnlessNone(rem) == rem # None

\* Line 41: if remote
UseOverride(rem) == Truthy(rem)

\* The inputs of fetch: revision lists without repetition, the trees
\* scm.get_fs serves, the configurations.
Revs == {"HEAD", "v1", "v2"}
Distinct(s) == \A i, j \in 1..Len(s) : i # j => s[i] # s[j]
RevLists == {s \in SeqsUpTo(Revs, MaxRevs) : Distinct(s)}

FetchFiles == { <<"a", "/", "a">>, <<"b">> }
FetchIds == { [oid |-> "abc", size |-> 10], [oid |-> "abc", size |-> 20] }
FetchKinds ==
    { [attr |-> "lfs", kind |-> "pointer", id |-> i] : i \in FetchIds }
    \cup { [attr |-> "lfs", kind |-> "malformed", id |-> NoId] }
    \cup PointerFiles({"text", "SCMError"})
FetchIncludes == { <<>>, << <<"a", "/", "*", "*">> >> }
\* Only lfs.url of the git config and the registered remotes vary.
FetchConfigs ==
    { [NoConfig EXCEPT !.lfsUrl = u, !.remotes = r] :
        u \in BOOLEAN, r \in {{}, Names} }
FetchTrees == TreesOver(FetchFiles, FetchKinds)

\* Lines 27-29.
FetchStart ==
    /\ pc = "fetch"
    /\ revs' = IF revs = <<>> THEN <<"HEAD">> ELSE revs
    /\ objects' = {}
    /\ revIdx' = 1
    /\ pc' = "for_rev"
    /\ UNCHANGED <<error, filterVars, argVars, collectVars, urlVars, localStore,
                   yielded, absentSeen, presentSeen, started,
                   finished, url, urlCalls, transfers>>

\* Line 30 taking the next revision and lines 111-130 of its collection.
FetchCollectBegin ==
    /\ pc = "for_rev"
    /\ ~ LoopDone
    /\ fs' \in FetchTrees          \* line 111: scm.get_fs(rev)
    /\ root' = Narrow(include).root
    /\ inc' = Narrow(include).include
    /\ todo' = FilterPaths(Find(fs', root'), inc', exclude)
    /\ UNCHANGED <<examined, opened, produced>>
    /\ started' = Append(started, revs[revIdx])
    /\ pc' = "collecting"
    /\ UNCHANGED <<error, filterVars, argVars, urlVars, revs, localStore,
                   revIdx, objects, yielded, absentSeen, presentSeen, finished,
                   url, urlCalls, transfers>>

\* One pass of the collector's loop (lines 130-140) and, for a Pointer it
\* yields, of the generator expression of lines 31-35.
FetchCollectCandidate ==
    /\ pc = "collecting"
    /\ \E path \in todo :
         LET o == Candidate(fs, path)
             new == {Pointer(i, <<revs[revIdx], path>>) : i \in o.ids}
         IN  /\ todo' = todo \ {path}
             /\ examined' = examined \cup {path}
             /\ opened' = IF o.opens THEN opened \cup {path} ELSE opened
             /\ produced' = produced \cup {Pointer(i, path) : i \in o.ids}
             /\ yielded' = yielded \cup {[rev |-> revs[revIdx], id |-> Id(p)] : p \in new}
             /\ absentSeen' = absentSeen \cup {Id(p) : p \in {q \in new : ~ Exists(q)}}
             /\ presentSeen' = presentSeen \cup {Id(p) : p \in {q \in new : Exists(q)}}
             /\ objects' = IF \E p \in new : Keep(p)
                           THEN SetAdd(objects, CHOOSE p \in new : Keep(p))
                           ELSE objects
             /\ error' = o.raises
             /\ pc' = IF o.raises = NoError THEN "collecting" ELSE "failed"
    /\ UNCHANGED <<fs, root, inc, filterVars, argVars, urlVars, revs,
                   localStore, revIdx, started, finished, url, urlCalls, transfers>>

\* The collector is exhausted and its frame gone: back to line 30.
FetchCollectEnd ==
    /\ pc = "collecting"
    /\ todo = {}
    /\ fs' = <<>> /\ root' = <<>> /\ inc' = <<>> /\ todo' = {}
    /\ examined' = {} /\ opened' = {} /\ produced' = {}
    /\ finished' = finished + 1
    /\ revIdx' = revIdx + 1
    /\ pc' = "for_rev"
    /\ UNCHANGED <<error, filterVars, argVars, urlVars, revs,
                   localStore, objects, yielded, absentSeen, presentSeen, started,
                   url, urlCalls, transfers>>

\* Lines 36-37.
FetchReturnEmpty ==
    /\ pc = "for_rev"
    /\ LoopDone
    /\ NothingToFetch
    /\ pc' = "returned"
    /\ UNCHANGED <<error, filterVars, argVars, collectVars, fetchVars, urlVars>>

\* Lines 38-45.
FetchResolveUrl ==
    /\ pc = "for_rev"
    /\ LoopDone
    /\ ~ NothingToFetch
    /\ urlResult' = GetFetchUrl(config, remote)
    /\ urlCalls' = urlCalls + 1
    /\ IF urlResult'.status = "ok"
       THEN url' = urlResult'.url /\ pc' = "transfer" /\ error' = NoError
       ELSE IF UseOverride(remote)
            THEN url' = remote /\ pc' = "transfer" /\ error' = NoError
            ELSE url' = url /\ pc' = "failed" /\ error' = urlResult'.status
    /\ UNCHANGED <<remote, config, filterVars, argVars, collectVars, revs,
                   localStore, revIdx, objects, yielded, absentSeen, presentSeen,
                   started, finished, transfers>>

\* Line 46: the transfer returns, or raises and the exception leaves fetch.
FetchTransfer ==
    /\ pc = "transfer"
    /\ transfers' = Append(transfers, [url |-> url, objects |-> objects])
    /\ \E ok \in BOOLEAN :
         /\ pc' = IF ok THEN "returned" ELSE "failed"
         /\ error' = IF ok THEN NoError ELSE "StorageTransferFailure"
    /\ UNCHANGED <<filterVars, argVars, collectVars, urlVars, revs,
                   localStore, revIdx, objects, yielded, absentSeen, presentSeen,
                   started, finished, url, urlCalls>>

(***************************************************************************)
(* Specification of fetch: up to MaxRevs distinct revisions, each with a   *)
(* tree of its own.                                                        *)
(***************************************************************************)
InitFetch ==
    /\ pc = "fetch"
    /\ revs \in RevLists
    /\ remote \in RemoteArgs
    /\ include \in FetchIncludes
    /\ exclude = <<>>
    /\ localStore \in SUBSET FetchIds
    /\ config \in FetchConfigs
    /\ urlResult = NoResult
    /\ error = NoError
    /\ fs = <<>>
    /\ revIdx = 0 /\ objects = {} /\ yielded = {} /\ absentSeen = {}
    /\ presentSeen = {} /\ started = <<>> /\ finished = 0 /\ url = ""
    /\ urlCalls = 0 /\ transfers = <<>>
    /\ IdleFilter /\ IdleCollect

NextFetch ==
    \/ FetchStart
    \/ FetchCollectBegin
    \/ FetchCollectCandidate
    \/ FetchCollectEnd
    \/ FetchReturnEmpty
    \/ FetchResolveUrl
    \/ FetchTransfer

SpecFetch == InitFetch /\ [][NextFetch]_vars

Ids(S) == {Id(p) : p \in S}
YieldedIds == {y.id : y \in yielded}

\* C2: the object set given to the storage transfer holds exactly the
\* Pointers the collector yielded for some requested revision and the
\* existence check answered False for, one entry per identity (oid, size),
\* and none the existence check answered True for.
TransferGetsMissingYieldedPointersOnce ==
    \A k \in 1..Len(transfers) :
        LET objs == transfers[k].objects
        IN  /\ Ids(objs) = YieldedIds \cap absentSeen
            /\ Ids(objs) \cap presentSeen = {}
            /\ \A p, q \in objs : Id(p) = Id(q) => p = q
            /\ Cardinality(objs) = Cardinality(Ids(objs))

\* Two revisions yielded the same missing Pointer, one yielded Pointer was
\* in local storage, and the transfer was invoked.
TransferWitness ==
    /\ Len(transfers) = 1
    /\ Len(started) = 2
    /\ Cardinality(transfers[1].objects) = 1
    /\ presentSeen # {}
    /\ \E p \in transfers[1].objects :
          \A r \in {started[1], started[2]} : [rev |-> r, id |-> Id(p)] \in yielded

\* C3: when the accumulated set is empty after every revision was collected,
\* fetch returns without error, without a get_fetch_url call and without a
\* storage transfer, whatever the configuration.
EmptySetReturnsWithoutResolving ==
    (pc \notin {"fetch", "failed"} /\ finished = Len(revs) /\ objects = {}) =>
        /\ pc \in {"for_rev", "returned"}
        /\ pc = "for_rev" => ENABLED FetchReturnEmpty
        /\ error = NoError
        /\ urlCalls = 0
        /\ transfers = <<>>

\* Every Pointer referenced was in local storage, no remote is configured,
\* and fetch returned.
EmptySetWitness ==
    /\ pc = "returned"
    /\ objects = {} /\ yielded # {} /\ YieldedIds \subseteq presentSeen
    /\ GetFetchUrl(config, remote).status = "InvalidRemote"
    /\ finished = 2

\* C4: when get_fetch_url raises InvalidRemote, a caller's remote (a
\* non-empty string) becomes the endpoint of the transfer as it is and fetch
\* does not fail with InvalidRemote; without one the error leaves fetch and
\* no transfer is invoked.  When get_fetch_url returns, its URL is the
\* endpoint.
OverrideIsEndpointOnInvalidRemote ==
    urlCalls > 0 =>
        /\ (urlResult.status = "InvalidRemote" /\ Truthy(remote)) =>
              /\ error # "InvalidRemote"
              /\ url = remote
              /\ pc = "transfer" \/ Len(transfers) = 1
              /\ \A k \in 1..Len(transfers) : transfers[k].url = remote
        /\ (urlResult.status = "InvalidRemote" /\ ~ Truthy(remote)) =>
              /\ pc = "failed" /\ error = "InvalidRemote"
              /\ transfers = <<>>
        /\ urlResult.status = "ok" =>
              /\ url = urlResult.url
              /\ pc = "transfer" \/ Len(transfers) = 1
              /\ \A k \in 1..Len(transfers) : transfers[k].url = urlResult.url
        /\ urlResult.status \in {"ok", "InvalidRemote"}

\* No remote is configured and the transfer was invoked with the caller's
\* remote.
OverrideWitness ==
    /\ urlResult.status = "InvalidRemote"
    /\ remote = ArgRemote
    /\ Len(transfers) = 1 /\ transfers[1].url = ArgRemote
    /\ pc = "returned"

\* The state part of C8.
PhasesInOrder ==
    /\ Len(started) <= Len(revs)
    /\ started = SubSeq(revs, 1, Len(started))
    /\ finished <= Len(started) /\ Len(started) <= finished + 1
    /\ pc = "collecting" => Len(started) = finished + 1
    /\ urlCalls > 0 => (finished = Len(revs) /\ Len(started) = Len(revs))
    /\ urlCalls <= 1
    /\ Len(transfers) <= 1
    /\ transfers # <<>> => (urlCalls = 1 /\ urlResult.status # "unset")

\* The step part of C8.
PhaseSteps ==
    /\ Len(started') > Len(started) => finished = Len(started)
    /\ (yielded' # yielded \/ absentSeen' # absentSeen \/ presentSeen' # presentSeen
        \/ objects' # objects) =>
          (pc = "fetch" \/ (pc = "collecting" /\ Len(started) = finished + 1
                            /\ urlCalls = 0))
    /\ urlCalls' > urlCalls => (finished = Len(revs) /\ pc # "collecting")
    /\ transfers' # transfers => (urlCalls = 1 /\ transfers = <<>>)

\* C8: revisions are collected one at a time in the order given, each
\* collection (with its existence checks) ending before the next begins;
\* get_fetch_url is called only after the last collection ended; the storage
\* transfer is invoked only after get_fetch_url ended, at most once.
FetchPhasesAreSequential == [] PhasesInOrder /\ [][PhaseSteps]_vars

\* Two revisions were collected in the order given, then the URL resolved,
\* then the transfer invoked and failed.
PhasesWitness ==
    /\ revs = <<"v1", "HEAD">> /\ started = revs /\ finished = 2
    /\ urlCalls = 1 /\ Len(transfers) = 1
    /\ pc = "failed" /\ error = "StorageTransferFailure"

====
